---- MODULE Spec2Model ----
(***************************************************************************)
(* A model of MarkdownTranslator (src/src/translator.js): the line-based   *)
(* chunk splitter, the sequential chunk translation loop, the single-file  *)
(* wrapper, the batch runner and its output paths; and of the `translate`  *)
(* command of the command line (src/unnamed/part_002) that calls them.     *)
(*                                                                         *)
(* Strings are sequences of one-character strings.  The alphabet of the    *)
(* documents has two ordinary characters and two whitespace characters     *)
(* (space and newline).  A path is the sequence of its segments.           *)
(*                                                                         *)
(* Specifications: SpecSplit (splitIntoChunks), SpecFile (translateFile),  *)
(* Spec (translateFiles), SpecPath (the output path of one matched file),  *)
(* SpecCli (a run of the command line), SpecLive (translateFiles when      *)
(* every awaited promise settles and its continuation runs).               *)
(***************************************************************************)
EXTENDS Integers, Sequences, FiniteSets, TLC

\* ------------------------------------------------------------------ bounds

\* longest content handed to splitIntoChunks in SpecSplit
MaxLen == 5
\* largest maxChunkSize handed to splitIntoChunks in SpecSplit
MaxChunk == 4

\* ----------------------------------------------------------------- strings

NL == "\n"
SP == " "
Chars == {"a", "b", SP, NL}

\* String.prototype.trim's notion of whitespace, restricted to the alphabet
IsWs(c) == c \in {SP, NL}

StringsUpTo(n) == UNION {[1..k -> Chars] : k \in 0..n}

RECURSIVE TrimStart(_)
TrimStart(s) == IF s # <<>> /\ IsWs(Head(s)) THEN TrimStart(Tail(s)) ELSE s

RECURSIVE TrimEnd(_)
TrimEnd(s) ==
    IF s # <<>> /\ IsWs(s[Len(s)]) THEN TrimEnd(SubSeq(s, 1, Len(s) - 1)) ELSE s

\* s.trim()
trim(s) == TrimEnd(TrimStart(s))

RECURSIVE SplitFrom(_, _, _)
SplitFrom(s, i, line) ==
    IF i > Len(s) THEN <<line>>
    ELSE IF s[i] = NL THEN <<line>> \o SplitFrom(s, i + 1, <<>>)
    ELSE SplitFrom(s, i + 1, Append(line, s[i]))

\* content.split('\n'): always at least one line
split(s) == SplitFrom(s, 1, <<>>)

RECURSIVE join(_, _)
\* parts.join(sep)
join(parts, sep) ==
    IF parts = <<>> THEN <<>>
    ELSE IF Len(parts) = 1 THEN parts[1]
    ELSE parts[1] \o sep \o join(Tail(parts), sep)

\* s.endsWith(t)
endsWith(s, t) == Len(t) <= Len(s) /\ SubSeq(s, Len(s) - Len(t) + 1, Len(s)) = t

\* s.endsWith('\n')
endsWithNewline(s) == s # <<>> /\ s[Len(s)] = NL

\* ---------------------------------------------------------- splitIntoChunks

\* translator.js:39, the test that closes the current chunk before `line`
ShouldFlushNoSeparator(currentChunk, line, maxChunkSize) ==
    Len(currentChunk) + Len(line) > maxChunkSize /\ Len(currentChunk) > 0

ShouldFlush(currentChunk, line, maxChunkSize) ==
    Len(currentChunk) + Len(line) + 1 > maxChunkSize /\ Len(currentChunk) > 0

\* translator.js:43, `currentChunk += (currentChunk ? '\n' : '') + line`
AppendLineNoNewline(currentChunk, line) == currentChunk \o line

AppendLine(currentChunk, line) ==
    currentChunk \o (IF currentChunk # <<>> THEN <<NL>> ELSE <<>>) \o line

\* translator.js:41, the accumulator after a flush
RestartEmpty(line) == <<>>

Restart(line) == line

RECURSIVE ChunkLoop(_, _, _, _)
\* translator.js:38-51, the loop over the lines and the final flush
ChunkLoop(lines, maxChunkSize, chunkList, currentChunk) ==
    IF lines = <<>>
    THEN IF trim(currentChunk) # <<>>
         THEN Append(chunkList, trim(currentChunk))
         ELSE chunkList
    ELSE LET line == Head(lines) IN
         IF ShouldFlush(currentChunk, line, maxChunkSize)
         THEN ChunkLoop(Tail(lines), maxChunkSize,
                        Append(chunkList, trim(currentChunk)), Restart(line))
         ELSE ChunkLoop(Tail(lines), maxChunkSize, chunkList,
                        AppendLine(currentChunk, line))

splitIntoChunks(text, maxChunkSize) ==
    ChunkLoop(split(text), maxChunkSize, <<>>, <<>>)

\* ---------------------------------------------------- provider and errors

\* translator.js:13, scaled from 800000 to the lengths of the modelled documents
DEFAULT_CHUNK_SIZE == 3

\* texts the provider may answer with: one with surrounding whitespace, one
\* that is whitespace alone
Responses == {<<SP, "x", NL>>, <<SP>>}

\* failures of model.generateContent (error.message)
ProviderErrors == {"429 quota exceeded", "503 unavailable"}

\* translator.js:91, `response.text().trim()`
TranslatedTextRaw(text) == text

TranslatedText(text) == trim(text)

\* translator.js:154, `!content.trim()`
IsEmptyContentNoTrim(text) == text = <<>>

IsEmptyContent(text) == trim(text) = <<>>

\* translator.js:92-95, the catch block of translateChunk: log, then `throw error`
translateChunkCatchSwallow(error) == [rethrow |-> FALSE, error |-> error]

translateChunkCatchWrap(error) == [rethrow |-> TRUE, error |-> "Translation failed"]

translateChunkCatch(error) == [rethrow |-> TRUE, error |-> error]

\* translator.js:114, the arguments of the progress callback for loop index i
ProgressArgsZeroBased(idx, n) == <<idx, n>>

ProgressArgs(idx, n) == <<idx + 1, n>>

\* translator.js:122, `if (i < chunks.length - 1)`: a delay follows chunk i
NeedsDelayAlways(idx, n) == idx < n

NeedsDelay(idx, n) == idx < n - 1

\* translator.js:128, the separator of `translatedChunks.join('\n\n')`
ChunkSeparatorSingle == <<NL>>

ChunkSeparator == <<NL, NL>>

\* translator.js:131
EnsureFinalNewline(s) == IF endsWithNewline(s) THEN s ELSE Append(s, NL)

\* translator.js:128-131, the value translateMarkdown returns
AssembleNoNewline(translated) == join(translated, ChunkSeparator)

Assemble(translated) == EnsureFinalNewline(join(translated, ChunkSeparator))

\* the await of a provider request returning: one request fewer in flight
SettleNever(n) == n

Settle(n) == n - 1

\* ------------------------------------------------------------------- paths

\* a path is a sequence of segments, a segment a string
MD == <<".", "m", "d">>
TXT == <<".", "t", "x", "t">>

\* the files a glob pattern may match, in enumeration order
AllFiles ==
    << << <<"a">>, <<"x">> \o MD >>,
       << <<"b">>, <<"x">> \o MD >>,
       << <<"a">>, <<"n">> \o TXT >>,
       << <<"y">> \o MD >>,
       << <<"b">>, <<"y">> \o MD >> >>

\* the number of files of AllFiles the file system holds
MaxFiles == 4

RECURSIVE LastDot(_, _)
\* the index of the last '.' of a file name, 0 when there is none
LastDot(base, k) ==
    IF k = 0 THEN 0 ELSE IF base[k] = "." THEN k ELSE LastDot(base, k - 1)

\* path.extname(file): from the last '.', unless the name starts with it
extname(file) ==
    LET base == file[Len(file)]
        d    == LastDot(base, Len(base))
    IN  IF d <= 1 THEN <<>> ELSE SubSeq(base, d, Len(base))

\* path.parse(file)
parse(file) ==
    LET base == file[Len(file)]
        ext  == extname(file)
    IN  [dir  |-> SubSeq(file, 1, Len(file) - 1),
         name |-> SubSeq(base, 1, Len(base) - Len(ext)),
         ext  |-> ext]

\* path.dirname(file)
dirname(file) == SubSeq(file, 1, Len(file) - 1)

\* translator.js:217-220, the extension filter (names are lower case here)
IsMarkdownAny(file) == TRUE

IsMarkdown(file) == extname(file) \in {MD, <<".", "m", "d", "x">>,
                                       <<".", "m", "a", "r", "k", "d", "o", "w", "n">>}

\* translator.js:262 and 267
NewNameSuffixLast(parsed, suffix) ==
    IF suffix # <<>> THEN parsed.name \o parsed.ext \o <<"_">> \o suffix
    ELSE parsed.name \o parsed.ext

NewName(parsed, suffix) ==
    IF suffix # <<>> THEN parsed.name \o <<"_">> \o suffix \o parsed.ext
    ELSE parsed.name \o parsed.ext

\* process.cwd(); an absolute path starts with the empty segment, as the
\* parts of '/w'.split('/') do
cwd == << <<>>, <<"w">> >>

DOT == <<".">>
DOTDOT == <<".", ".">>

\* path.isAbsolute(p)
isAbsolute(p) == p # <<>> /\ p[1] = <<>>

\* whether the string the segments stand for is '' (falsy)
IsEmptyPath(p) == p = <<>> \/ p = << <<>> >>

RECURSIVE NormalizeFrom(_, _, _)
\* the segments of `rest` applied to `stack`: '' and '.' are skipped, '..'
\* removes the last segment, stays when there is none to remove in a relative
\* path and is dropped at the root
NormalizeFrom(rest, stack, abs) ==
    IF rest = <<>> THEN stack
    ELSE LET seg == Head(rest) IN
         IF seg = <<>> \/ seg = DOT
         THEN NormalizeFrom(Tail(rest), stack, abs)
         ELSE IF seg = DOTDOT
         THEN IF stack # <<>> /\ stack[Len(stack)] # DOTDOT
              THEN NormalizeFrom(Tail(rest), SubSeq(stack, 1, Len(stack) - 1), abs)
              ELSE IF abs THEN NormalizeFrom(Tail(rest), stack, abs)
              ELSE NormalizeFrom(Tail(rest), Append(stack, seg), abs)
         ELSE NormalizeFrom(Tail(rest), Append(stack, seg), abs)

\* path.normalize(p)
normalize(p) ==
    IF isAbsolute(p) THEN << <<>> >> \o NormalizeFrom(p, <<>>, TRUE)
    ELSE NormalizeFrom(p, <<>>, FALSE)

\* path.join(a, b, c)
pathJoin(a, b, c) == normalize(a \o b \o c)

\* path.resolve(p)
resolve(p) == IF isAbsolute(p) THEN normalize(p) ELSE normalize(cwd \o p)

RECURSIVE CommonLen(_, _)
\* the number of leading segments two paths share
CommonLen(a, b) ==
    IF a = <<>> \/ b = <<>> \/ Head(a) # Head(b) THEN 0
    ELSE 1 + CommonLen(Tail(a), Tail(b))

\* path.relative(from, to)
relative(from, to) ==
    LET f == resolve(from)
        t == resolve(to)
        c == CommonLen(f, t)
    IN  [k \in 1..(Len(f) - c) |-> DOTDOT] \o SubSeq(t, c + 1, Len(t))

\* part.includes('*')
IncludesStar(part) == \E k \in 1..Len(part) : part[k] = "*"

\* patternParts.findIndex(part => part.includes('*')), zero-based, -1 for none
WildcardIndex(patternParts) ==
    IF \E k \in 1..Len(patternParts) : IncludesStar(patternParts[k])
    THEN (CHOOSE k \in 1..Len(patternParts) :
             /\ IncludesStar(patternParts[k])
             /\ \A j \in 1..(k - 1) : ~IncludesStar(patternParts[j])) - 1
    ELSE -1

\* translator.js:244-252: baseDir is set for an absolute pattern only
BaseDir(inputPattern) ==
    IF isAbsolute(inputPattern) /\ WildcardIndex(inputPattern) > 0
    THEN SubSeq(inputPattern, 1, WildcardIndex(inputPattern))
    ELSE <<>>

\* a.startsWith(b) for strings without '/'
IsPrefix(b, a) == Len(b) <= Len(a) /\ SubSeq(a, 1, Len(b)) = b

\* normalizedInputFile.startsWith(baseDir), on the strings the segments stand
\* for: the segments before baseDir's last are equal, the last is a prefix
startsWith(file, baseDir) ==
    \/ baseDir = <<>>
    \/ /\ Len(baseDir) <= Len(file)
       /\ \A k \in 1..(Len(baseDir) - 1) : file[k] = baseDir[k]
       /\ IsPrefix(baseDir[Len(baseDir)], file[Len(baseDir)])

\* translator.js:254-259
RelativePath(inputPattern, inputFile) ==
    LET baseDir == BaseDir(inputPattern)
    IN  IF ~IsEmptyPath(baseDir) /\ startsWith(inputFile, baseDir)
        THEN relative(baseDir, inputFile)
        ELSE relative(cwd, inputFile)

\* translator.js:236-269, the output path of one matched file
OutputPathOf(inputPattern, inputFile, outputDir, preserveStructure, suffix) ==
    IF preserveStructure
    THEN LET parsed == parse(RelativePath(inputPattern, inputFile))
         IN  pathJoin(outputDir, parsed.dir, <<NewName(parsed, suffix)>>)
    ELSE LET parsed == parse(inputFile)
         IN  pathJoin(outputDir, <<>>, <<NewName(parsed, suffix)>>)

\* translator.js:289-293
ErrorOutcomeWithOutput(inputFile, message) ==
    [inputPath |-> inputFile, outputPath |-> <<>>, error |-> message,
     success |-> FALSE]

ErrorOutcome(inputFile, message) ==
    [inputPath |-> inputFile, error |-> message, success |-> FALSE]

\* translator.js:169-175
SuccessOutcome(inputPath, outputPath, targetLanguage, original, translated) ==
    [inputPath |-> inputPath, outputPath |-> outputPath,
     targetLanguage |-> targetLanguage,
     originalLength |-> Len(original), translatedLength |-> Len(translated)]

\* translator.js:234, the for-of loop goes on with the next file after the
\* catch block of translator.js:287-294
AfterFailedFileBreak(idx, n) == n + 1

AfterFailedFileAgain(idx, n) == idx

AfterFailedFile(idx, n) == idx + 1

\* the pattern of a direct call of translateFiles: '**/*'
AnyFile == << <<"*", "*">>, <<"*">> >>

\* the output directory of a direct call: 'out'
OUT == << <<"o", "u", "t">> >>

\* the language argument
targetLanguage == <<"F", "r", "e", "n", "c", "h">>

\* ------------------------------------------------------- the command line

\* the options of `translate` that are strings are '' (<<>>) when not given

\* String.prototype.toLowerCase on the alphabet of the language names
toLowerCase(s) == [k \in 1..Len(s) |-> IF s[k] = "F" THEN "f" ELSE s[k]]

RECURSIVE ReplaceWhitespace(_)
\* s.replace(/\s+/g, '_'): every run of whitespace becomes one '_'
ReplaceWhitespace(s) ==
    IF s = <<>> THEN <<>>
    ELSE IF IsWs(Head(s))
         THEN <<"_">> \o ReplaceWhitespace(TrimStart(s))
         ELSE <<Head(s)>> \o ReplaceWhitespace(Tail(s))

\* part_002:155, the suffix made of the language name
LanguageSuffix(language) == ReplaceWhitespace(toLowerCase(language))

\* the pattern '{a,b}/x.md', without '*' and '?'
Braces == << <<"{", "a", ",", "b", "}">>, <<"x">> \o MD >>

\* whether glob(pattern) can return the file: the three kinds of pattern the
\* model uses are '**/*', '{a,b}/x.md' and a plain path
Matches(pattern, file) ==
    IF pattern = AnyFile THEN TRUE
    ELSE IF pattern = Braces
    THEN Len(file) = 2 /\ file[1] \in {<<"a">>, <<"b">>} /\ file[2] = Braces[2]
    ELSE file = pattern

\* inputPattern.includes(c), on the string the segments stand for
Includes(pattern, c) ==
    \E k \in 1..Len(pattern) : \E m \in 1..Len(pattern[k]) : pattern[k][m] = c

\* part_002:61
IsPatternWildcardsOnly(inputPattern, matchedFiles) ==
    Includes(inputPattern, "*") \/ Includes(inputPattern, "?")

IsPatternInput(inputPattern, matchedFiles) ==
    \/ Includes(inputPattern, "*")
    \/ Includes(inputPattern, "?")
    \/ Len(matchedFiles) > 1

\* part_002:65, `!options.outputDir`
NoOutputDirNever(opts) == FALSE

NoOutputDir(opts) == opts.outputDir = <<>>

\* part_002:138-140, on the last segment as no extension holds a '/'
CliIsMarkdownAny(inputPath) == TRUE

CliIsMarkdown(inputPath) ==
    \E ext \in {MD, <<".", "m", "d", "x">>,
                <<".", "m", "a", "r", "k", "d", "o", "w", "n">>} :
        endsWith(toLowerCase(inputPath[Len(inputPath)]), ext)

\* path.basename(p, ext)
basename(p, ext) ==
    LET base == p[Len(p)]
    IN  IF ext # <<>> /\ base # ext /\ endsWith(base, ext)
        THEN SubSeq(base, 1, Len(base) - Len(ext))
        ELSE base

\* part_002:145-160, the output path of a single file
CliOutputPath(opts, inputPath) ==
    IF opts.output # <<>> THEN resolve(opts.output)
    ELSE IF opts.outputDir # <<>>
    THEN LET parsed  == parse(inputPath)
             newName == IF opts.suffix # <<>>
                        THEN parsed.name \o <<"_">> \o opts.suffix \o parsed.ext
                        ELSE parsed.name \o parsed.ext
         IN  pathJoin(resolve(opts.outputDir), <<>>, <<newName>>)
    ELSE LET sfx == IF opts.suffix # <<>> THEN opts.suffix
                    ELSE LanguageSuffix(opts.language)
         IN  pathJoin(dirname(inputPath), <<>>,
                      <<basename(inputPath, extname(inputPath)) \o <<"_">> \o sfx
                        \o extname(inputPath)>>)

\* ------------------------------------------------------------------- state

VARIABLES
    pc,             \* position of the control flow
    entry,          \* the method called: splitIntoChunks, translateFile or translateFiles
    content,        \* the content argument of splitIntoChunks / translateMarkdown
    maxChunkSize,   \* the maxChunkSize argument of splitIntoChunks
    chunks,         \* the chunk list returned by splitIntoChunks
    inputPattern,   \* translateFiles: inputPattern
    outputDir,      \* translateFiles: outputDir
    progressCallback, \* whether options.progressCallback is given
    preserveStructure, \* options.preserveStructure
    suffix,         \* options.suffix
    markdownFiles,  \* translateFiles: the filtered file list
    fileIdx,        \* translateFiles: position of the for-of loop in markdownFiles
    processedFiles, \* translateFiles: processedFiles
    currentFileIndex, \* translateFiles: currentFileIndex of the current file
    results,        \* translateFiles: results
    inputPath,      \* translateFile: inputPath
    outputPath,     \* translateFile: outputPath
    i,              \* translateMarkdown: loop index
    translatedChunks,  \* translateMarkdown: translatedChunks
    translatedContent, \* translateFile: translatedContent
    inflight,       \* provider requests issued and not yet settled
    dirs,           \* directories created by fs.ensureDir
    written,        \* files written by fs.writeFile: path -> content
    rejection,      \* the error the called method rejects with, "" while none
    returned,       \* the record a direct call of translateFile resolves to
    options,        \* command line: the options of `translate`
    isPattern,      \* command line: isPattern, FALSE until it is computed
    cliLog,         \* history: the file system calls of the command line itself
    exitError,      \* command line: the error reported before process.exit(1)
    attempted,      \* history: the inputPath of every translateFile call, in order
    trace           \* history: the events of the current translateFile call

vars == <<pc, entry, content, maxChunkSize, chunks, inputPattern, outputDir,
          progressCallback,
          preserveStructure, suffix, markdownFiles, fileIdx, processedFiles,
          currentFileIndex, results, inputPath, outputPath, i, translatedChunks,
          translatedContent, inflight, dirs, written, rejection, returned, attempted,
          trace, options, isPattern, cliLog, exitError>>

splitVars == <<content, maxChunkSize, chunks>>
\* the state of the command line, which no step of the translator changes
cliVars == <<options, isPattern, cliLog, exitError>>
optionVars == <<entry, inputPattern, outputDir, progressCallback,
                preserveStructure, suffix, cliVars>>
batchVars == <<markdownFiles, fileIdx, processedFiles, currentFileIndex, results,
               rejection, returned, attempted>>
fileVars == <<inputPath, outputPath, i, translatedChunks, translatedContent, trace>>
fsVars == <<dirs, written>>

\* every local of the batch before translateFiles runs
Idle ==
    /\ markdownFiles = <<>>
    /\ fileIdx = 0
    /\ processedFiles = 0
    /\ currentFileIndex = 0
    /\ results = <<>>
    /\ inputPath = <<>>
    /\ outputPath = <<>>
    /\ i = 0
    /\ translatedChunks = <<>>
    /\ translatedContent = <<>>
    /\ inflight = 0
    /\ dirs = {}
    /\ written = <<>>
    /\ rejection = ""
    /\ returned = <<>>
    /\ attempted = <<>>
    /\ trace = <<>>

\* a call of the translator that does not come from the command line
NoCli ==
    /\ options = <<>>
    /\ isPattern = FALSE
    /\ cliLog = <<>>
    /\ exitError = ""

\* ----------------------------------------------- splitIntoChunks on its own

SplitInit ==
    /\ pc = "split"
    /\ entry = "splitIntoChunks"
    /\ content \in StringsUpTo(MaxLen)
    /\ maxChunkSize \in 0..MaxChunk
    /\ chunks = <<>>
    /\ inputPattern = <<>>
    /\ outputDir = <<>>
    /\ progressCallback = FALSE
    /\ preserveStructure = TRUE
    /\ suffix = <<>>
    /\ Idle
    /\ NoCli

CallSplit ==
    /\ pc = "split"
    /\ chunks' = splitIntoChunks(content, maxChunkSize)
    /\ pc' = "splitDone"
    /\ UNCHANGED <<content, maxChunkSize, optionVars, batchVars, fileVars,
                   inflight, fsVars>>

SplitNext == CallSplit

SpecSplit == SplitInit /\ [][SplitNext]_vars

\* ------------------------------------------ translateFile and translateFiles

\* longest content fs.readFile may return to a direct call of translateFile
MaxDocLen == 7

\* the contents an input file may hold
Docs == UNION {[1..k -> {"a", NL}] : k \in 0..MaxDocLen}

\* the contents read in a batch: an empty file, a blank one, one chunk, two
\* chunks
BatchDocs == {<<>>, <<NL>>, <<"a", "a">>, <<"a", "a", NL, "a", "a">>}

Readable == IF entry = "translateFile" THEN Docs ELSE BatchDocs

RECURSIVE Pick(_, _, _)
\* the elements of seq whose index is in idxs, in order
Pick(seq, idxs, k) ==
    IF k > Len(seq) THEN <<>>
    ELSE (IF k \in idxs THEN <<seq[k]>> ELSE <<>>) \o Pick(seq, idxs, k + 1)

\* translateFiles(inputPattern, outputDir, targetLanguage, options) is called,
\* with a progress callback as the command line passes one
Init ==
    /\ pc = "translateFiles"
    /\ entry = "translateFiles"
    /\ content = <<>>
    /\ maxChunkSize = DEFAULT_CHUNK_SIZE
    /\ chunks = <<>>
    /\ inputPattern = AnyFile
    /\ outputDir = OUT
    /\ progressCallback = TRUE
    /\ preserveStructure \in BOOLEAN
    /\ suffix \in {<<>>, <<"f", "r">>}
    /\ Idle
    /\ NoCli

\* the locals of translateFile and translateMarkdown once the call is over
DropLocals ==
    /\ content' = <<>>
    /\ chunks' = <<>>
    /\ inputPath' = <<>>
    /\ outputPath' = <<>>
    /\ i' = 0
    /\ translatedChunks' = <<>>
    /\ translatedContent' = <<>>

\* translator.js:207-226: glob resolves; the two emptiness tests and the filter
GlobResolves ==
    /\ pc = "translateFiles"
    /\ \E idxs \in SUBSET (1..MaxFiles) :
          LET files == SelectSeq(Pick(AllFiles, idxs, 1),
                                 LAMBDA f : Matches(inputPattern, f))
              md    == SelectSeq(files, IsMarkdown)
          IN  IF Len(files) = 0
              THEN /\ rejection' = "No files found matching pattern"
                   /\ pc' = "rejected"
                   /\ UNCHANGED markdownFiles
              ELSE IF Len(md) = 0
              THEN /\ rejection' = "No markdown files found in the matched files"
                   /\ pc' = "rejected"
                   /\ UNCHANGED markdownFiles
              ELSE /\ markdownFiles' = md
                   /\ pc' = "ensureOutputDir"
                   /\ UNCHANGED rejection
    /\ UNCHANGED <<splitVars, optionVars, fileIdx, processedFiles,
                   currentFileIndex, results, returned, attempted, fileVars,
                   inflight, fsVars>>

\* translator.js:229-232: fs.ensureDir(outputDir) resolves
EnsureOutputDirOk ==
    /\ pc = "ensureOutputDir"
    /\ dirs' = dirs \cup {outputDir}
    /\ results' = <<>>
    /\ processedFiles' = 0
    /\ fileIdx' = 1
    /\ pc' = "loop"
    /\ UNCHANGED <<splitVars, optionVars, markdownFiles, currentFileIndex,
                   rejection, returned, attempted, fileVars, inflight, written>>

\* translator.js:229, 310-313: fs.ensureDir(outputDir) rejects
EnsureOutputDirFails ==
    /\ pc = "ensureOutputDir"
    /\ rejection' = "EACCES: permission denied"
    /\ pc' = "rejected"
    /\ UNCHANGED <<splitVars, optionVars, markdownFiles, fileIdx, processedFiles,
                   currentFileIndex, results, returned, attempted, fileVars,
                   inflight, fsVars>>

\* translator.js:234-281 and 143-146: the next file of the loop, up to the
\* first await of translateFile
NextFile ==
    /\ pc = "loop"
    /\ fileIdx <= Len(markdownFiles)
    /\ inputPath' = markdownFiles[fileIdx]
    /\ outputPath' = OutputPathOf(inputPattern, markdownFiles[fileIdx],
                                  outputDir, preserveStructure, suffix)
    /\ currentFileIndex' = processedFiles + 1
    /\ attempted' = Append(attempted, markdownFiles[fileIdx])
    /\ trace' = <<>>
    /\ pc' = "pathExists"
    /\ UNCHANGED <<splitVars, optionVars, markdownFiles, fileIdx, processedFiles,
                   results, rejection, returned, i, translatedChunks,
                   translatedContent, inflight, fsVars>>

\* translator.js:297-308: the loop is over, the results are returned
ReturnResults ==
    /\ pc = "loop"
    /\ fileIdx > Len(markdownFiles)
    /\ pc' = "returned"
    /\ UNCHANGED <<splitVars, optionVars, batchVars, fileVars, inflight, fsVars>>

\* translator.js:176-179: translateFile logs and rethrows; in a batch,
\* translator.js:287-294: the loop's catch block records the failure and the
\* loop goes on
FileFails(message) ==
    /\ IF entry = "translateFiles"
       THEN /\ results' = Append(results, ErrorOutcome(inputPath, message))
            /\ fileIdx' = AfterFailedFile(fileIdx, Len(markdownFiles))
            /\ pc' = "loop"
            /\ UNCHANGED rejection
       ELSE /\ rejection' = message
            /\ pc' = "rejected"
            /\ UNCHANGED <<results, fileIdx>>
    /\ DropLocals
    /\ UNCHANGED <<maxChunkSize, optionVars, markdownFiles, processedFiles,
                   currentFileIndex, returned, attempted, fsVars>>

\* translator.js:146-148: the input file does not exist
PathMissing ==
    /\ pc = "pathExists"
    /\ FileFails("Input file does not exist")
    /\ UNCHANGED <<trace, inflight>>

\* translator.js:146: the input file exists
PathExists ==
    /\ pc = "pathExists"
    /\ pc' = "readFile"
    /\ UNCHANGED <<splitVars, optionVars, batchVars, fileVars, inflight, fsVars>>

\* translator.js:152-156: the file holds whitespace alone
ReadEmpty ==
    /\ pc = "readFile"
    /\ \E text \in Readable : IsEmptyContent(text)
    /\ FileFails("Input file is empty")
    /\ UNCHANGED <<trace, inflight>>

\* translator.js:113-118 and 86-89: the progress callback, then the request
BeginChunk(idx, n, sofar, flying) ==
    /\ trace' = sofar
                \o (IF progressCallback
                    THEN << <<"progress">> \o ProgressArgs(idx, n) >>
                    ELSE <<>>)
                \o << <<"request", idx + 1, n>> >>
    /\ inflight' = flying + 1
    /\ pc' = "generateContent"

\* translator.js:152-159, 107-118: the content is read and split, and the loop
\* of translateMarkdown runs up to its first await
ReadContent ==
    /\ pc = "readFile"
    /\ \E text \in Readable :
          /\ ~IsEmptyContent(text)
          /\ content' = text
          /\ chunks' = splitIntoChunks(text, maxChunkSize)
          /\ translatedChunks' = <<>>
          /\ i' = 0
          /\ IF Len(chunks') > 0
             THEN /\ BeginChunk(0, Len(chunks'), trace, inflight)
                  /\ UNCHANGED translatedContent
             ELSE /\ translatedContent' = Assemble(<<>>)
                  /\ pc' = "ensureDir"
                  /\ UNCHANGED <<trace, inflight>>
    /\ UNCHANGED <<maxChunkSize, optionVars, batchVars, inputPath, outputPath,
                   fsVars>>

\* translator.js:119-131: the chunk's result is pushed; then the delay, the
\* next chunk or the end of the loop
ChunkDone(text, sofar, flying) ==
    LET n == Len(chunks)
    IN  /\ translatedChunks' = Append(translatedChunks, text)
        /\ IF NeedsDelay(i, n)
           THEN /\ pc' = "delay"
                /\ trace' = sofar
                /\ inflight' = flying
                /\ UNCHANGED <<i, translatedContent>>
           ELSE IF i + 1 < n
           THEN /\ i' = i + 1
                /\ BeginChunk(i + 1, n, sofar, flying)
                /\ UNCHANGED translatedContent
           ELSE /\ i' = i + 1
                /\ translatedContent' = Assemble(translatedChunks')
                /\ pc' = "ensureDir"
                /\ trace' = sofar
                /\ inflight' = flying
        /\ UNCHANGED <<content, maxChunkSize, chunks, optionVars, batchVars,
                       inputPath, outputPath, fsVars>>

\* translator.js:89-91: the provider answers
ResponseOk ==
    /\ pc = "generateContent"
    /\ \E text \in Responses :
          ChunkDone(TranslatedText(text),
                    Append(trace, <<"response", i + 1, Len(chunks), text>>),
                    Settle(inflight))

\* translator.js:89, 92-95: the provider request fails
ResponseFails ==
    /\ pc = "generateContent"
    /\ \E error \in ProviderErrors :
          LET caught == translateChunkCatch(error)
              sofar  == Append(trace, <<"failure", i + 1, error>>)
          IN  IF caught.rethrow
              THEN /\ FileFails(caught.error)
                   /\ trace' = sofar
                   /\ inflight' = Settle(inflight)
              ELSE ChunkDone(<<>>, sofar, Settle(inflight))

\* translator.js:122-125, 112-118: the delay is over, the next chunk begins
DelayElapses ==
    /\ pc = "delay"
    /\ i' = i + 1
    /\ BeginChunk(i + 1, Len(chunks),
                  Append(trace, <<"delay", i + 1, Len(chunks)>>), inflight)
    /\ UNCHANGED <<splitVars, optionVars, batchVars, inputPath, outputPath,
                   translatedChunks, translatedContent, fsVars>>

\* translator.js:162-163: fs.ensureDir(path.dirname(outputPath)) resolves
EnsureDirOk ==
    /\ pc = "ensureDir"
    /\ dirs' = dirs \cup {dirname(outputPath)}
    /\ pc' = "writeFile"
    /\ UNCHANGED <<splitVars, optionVars, batchVars, fileVars, inflight, written>>

\* translator.js:163: fs.ensureDir rejects
EnsureDirFails ==
    /\ pc = "ensureDir"
    /\ FileFails("EACCES: permission denied")
    /\ UNCHANGED <<trace, inflight>>

\* translator.js:166-175: the output is written and the record returned; in a
\* batch, translator.js:282-284: the record is pushed
WriteOk ==
    /\ pc = "writeFile"
    /\ written' = [p \in DOMAIN written \cup {outputPath} |->
                      IF p = outputPath THEN translatedContent ELSE written[p]]
    /\ LET result == SuccessOutcome(inputPath, outputPath, targetLanguage,
                                    content, translatedContent)
       IN  IF entry = "translateFiles"
           THEN /\ results' = Append(results, result)
                /\ processedFiles' = processedFiles + 1
                /\ fileIdx' = fileIdx + 1
                /\ pc' = "loop"
                /\ UNCHANGED returned
           ELSE /\ returned' = result
                /\ pc' = "returned"
                /\ UNCHANGED <<results, processedFiles, fileIdx>>
    /\ DropLocals
    /\ UNCHANGED <<maxChunkSize, optionVars, markdownFiles, currentFileIndex,
                   rejection, attempted, trace, inflight, dirs>>

\* translator.js:166: fs.writeFile rejects
WriteFails ==
    /\ pc = "writeFile"
    /\ FileFails("ENOSPC: no space left on device")
    /\ UNCHANGED <<trace, inflight>>

\* translator.js:143-180
TranslateFileNext ==
    \/ PathMissing
    \/ PathExists
    \/ ReadEmpty
    \/ ReadContent
    \/ ResponseOk
    \/ ResponseFails
    \/ DelayElapses
    \/ EnsureDirOk
    \/ EnsureDirFails
    \/ WriteOk
    \/ WriteFails

Next ==
    \/ GlobResolves
    \/ EnsureOutputDirOk
    \/ EnsureOutputDirFails
    \/ NextFile
    \/ ReturnResults
    \/ PathMissing
    \/ PathExists
    \/ ReadEmpty
    \/ ReadContent
    \/ ResponseOk
    \/ ResponseFails
    \/ DelayElapses
    \/ EnsureDirOk
    \/ EnsureDirFails
    \/ WriteOk
    \/ WriteFails

\* a batch: translateFiles
Spec == Init /\ [][Next]_vars

\* the options of the output path, which no branch of the control flow reads,
\* left at their defaults
LiveInit == Init /\ preserveStructure /\ suffix = <<>>

\* translator.js:194-314: the continuation of the pending await runs. Until
\* translateFiles has returned or rejected it is suspended at exactly one
\* await (glob, a file system call, the provider request, the delay) or about
\* to start the next iteration, and every step of Next moves pc.
Continuation ==
    /\ pc \notin {"returned", "rejected"}
    /\ pc' \in {"ensureOutputDir", "loop", "pathExists", "readFile",
               "generateContent", "delay", "ensureDir", "writeFile",
               "returned", "rejected"} \ {pc}

\* a batch in which every awaited promise settles and its continuation runs:
\* as Next is enabled exactly while Continuation is and each of its steps is
\* a Continuation step, the condition is WF_vars(Next)
SpecLive == LiveInit /\ [][Next]_vars /\ WF_pc(Continuation)

\* translateFile(inputPath, outputPath, targetLanguage, progressCallback) is
\* called directly, as the command line does for a single file
FileInit ==
    /\ pc = "pathExists"
    /\ entry = "translateFile"
    /\ content = <<>>
    /\ maxChunkSize = DEFAULT_CHUNK_SIZE
    /\ chunks = <<>>
    /\ inputPattern = <<>>
    /\ outputDir = <<>>
    /\ progressCallback \in BOOLEAN
    /\ preserveStructure = TRUE
    /\ suffix = <<>>
    /\ markdownFiles = <<>>
    /\ fileIdx = 0
    /\ processedFiles = 0
    /\ currentFileIndex = 0
    /\ results = <<>>
    /\ inputPath = AllFiles[1]
    /\ outputPath = OUT \o <<AllFiles[1][Len(AllFiles[1])]>>
    /\ i = 0
    /\ translatedChunks = <<>>
    /\ translatedContent = <<>>
    /\ inflight = 0
    /\ dirs = {}
    /\ written = <<>>
    /\ rejection = ""
    /\ returned = <<>>
    /\ attempted = <<AllFiles[1]>>
    /\ trace = <<>>
    /\ NoCli

\* a single file: translateFile
SpecFile == FileInit /\ [][TranslateFileNext]_vars

\* ------------------------------------------- the `translate` command (part_002)

\* the command lines: an option the code never reads in the mode the input
\* leads to stays at its default (--output for a pattern, --flat for a single
\* file, every option when the key is missing); '**/*' is run structured
\* without a suffix and flat with one, '{a,b}/x.md' in all four combinations
CommandLines ==
    {o \in [key : BOOLEAN,
            input : {AnyFile, Braces, AllFiles[1], AllFiles[3]},
            language : {targetLanguage},
            output : {<<>>, << <<"o">> \o MD >>},
            outputDir : {<<>>, OUT},
            flat : BOOLEAN,
            suffix : {<<>>, <<"f", "r">>}] :
        /\ o.input \in {AnyFile, Braces} => o.output = <<>>
        /\ o.input = AnyFile => (o.flat <=> o.suffix # <<>>)
        /\ o.input \notin {AnyFile, Braces} => ~o.flat
        /\ ~o.key => (o.output = <<>> /\ o.outputDir = <<>> /\ ~o.flat
                      /\ o.suffix = <<>>)}

\* part_002:38: the action of `translate` starts
CliInit ==
    /\ pc = "cli"
    /\ entry = "cli"
    /\ content = <<>>
    /\ maxChunkSize = DEFAULT_CHUNK_SIZE
    /\ chunks = <<>>
    /\ inputPattern = <<>>
    /\ outputDir = <<>>
    /\ progressCallback = FALSE
    /\ preserveStructure = TRUE
    /\ suffix = <<>>
    /\ Idle
    /\ options \in CommandLines
    /\ isPattern = FALSE
    /\ cliLog = <<>>
    /\ exitError = ""

\* console.error(message); process.exit(1)
Exit(message) ==
    /\ exitError' = message
    /\ pc' = "exit"

\* part_002:43-59: the API key check, the translator's construction, and the
\* glob call of the command line
CliStart ==
    /\ pc = "cli"
    /\ IF ~options.key
       THEN /\ Exit("Google Gemini API key is required")
            /\ UNCHANGED cliLog
       ELSE /\ cliLog' = Append(cliLog, "glob")
            /\ pc' = "cliGlob"
            /\ UNCHANGED exitError
    /\ UNCHANGED <<splitVars, entry, inputPattern, outputDir, progressCallback,
                   preserveStructure, suffix, options, isPattern, batchVars,
                   fileVars, inflight, fsVars>>

\* part_002:57-102 and 129-132: glob resolves, the input is classified; a
\* batch needs --output-dir and calls translateFiles, a single file is
\* resolved and checked for existence
CliGlobResolves ==
    /\ pc = "cliGlob"
    /\ \E idxs \in SUBSET (1..MaxFiles) :
          LET matchedFiles == SelectSeq(Pick(AllFiles, idxs, 1),
                                        LAMBDA f : Matches(options.input, f))
          IN  isPattern' = IsPatternInput(options.input, matchedFiles)
    /\ IF isPattern'
       THEN IF NoOutputDir(options)
            THEN /\ Exit("--output-dir is required for batch translation")
                 /\ UNCHANGED <<entry, inputPattern, outputDir, progressCallback,
                                preserveStructure, suffix, cliLog, inputPath>>
            ELSE /\ entry' = "translateFiles"
                 /\ inputPattern' = options.input
                 /\ outputDir' = resolve(options.outputDir)
                 /\ progressCallback' = TRUE
                 /\ preserveStructure' = ~options.flat
                 /\ suffix' = options.suffix
                 /\ pc' = "translateFiles"
                 /\ UNCHANGED <<exitError, cliLog, inputPath>>
       ELSE /\ inputPath' = resolve(options.input)
            /\ cliLog' = Append(cliLog, "pathExists")
            /\ pc' = "cliPathExists"
            /\ UNCHANGED <<entry, inputPattern, outputDir, progressCallback,
                           preserveStructure, suffix, exitError>>
    /\ UNCHANGED <<splitVars, options, batchVars, outputPath, i, translatedChunks,
                   translatedContent, trace, inflight, fsVars>>

\* part_002:132-135: the input file does not exist
CliInputMissing ==
    /\ pc = "cliPathExists"
    /\ Exit("Input file not found")
    /\ UNCHANGED <<splitVars, entry, inputPattern, outputDir, progressCallback,
                   preserveStructure, suffix, options, isPattern, cliLog,
                   batchVars, fileVars, inflight, fsVars>>

\* part_002:132-165: the input file exists; the extension check, the output
\* path, and the existence check of the output file
CliInputExists ==
    /\ pc = "cliPathExists"
    /\ IF ~CliIsMarkdown(inputPath)
       THEN /\ Exit("Input file must be a markdown file")
            /\ UNCHANGED <<outputPath, cliLog>>
       ELSE /\ outputPath' = CliOutputPath(options, inputPath)
            /\ cliLog' = Append(cliLog, "pathExists")
            /\ pc' = "cliOutputExists"
            /\ UNCHANGED exitError
    /\ UNCHANGED <<splitVars, entry, inputPattern, outputDir, progressCallback,
                   preserveStructure, suffix, options, isPattern, batchVars,
                   inputPath, i, translatedChunks, translatedContent, trace,
                   inflight, fsVars>>

\* part_002:163-189: the existence check of the output resolves (a warning at
\* most), translateFile is called with a progress callback
CliCallTranslateFile ==
    /\ pc = "cliOutputExists"
    /\ entry' = "translateFile"
    /\ progressCallback' = TRUE
    /\ attempted' = <<inputPath>>
    /\ pc' = "pathExists"
    /\ UNCHANGED <<splitVars, inputPattern, outputDir, preserveStructure, suffix,
                   cliVars, markdownFiles, fileIdx, processedFiles,
                   currentFileIndex, results, rejection, returned, fileVars,
                   inflight, fsVars>>

\* part_002:122-125, 200-213: the call rejects; the error is reported
CliCatch ==
    /\ pc = "rejected"
    /\ Exit(rejection)
    /\ UNCHANGED <<splitVars, entry, inputPattern, outputDir, progressCallback,
                   preserveStructure, suffix, options, isPattern, cliLog,
                   batchVars, fileVars, inflight, fsVars>>

\* part_002:104-120, 191-198: the call returns; the summary is printed
CliDone ==
    /\ pc = "returned"
    /\ pc' = "done"
    /\ UNCHANGED <<splitVars, optionVars, batchVars, fileVars, inflight, fsVars>>

CliNext ==
    \/ CliStart
    \/ CliGlobResolves
    \/ CliInputMissing
    \/ CliInputExists
    \/ CliCallTranslateFile
    \/ CliCatch
    \/ CliDone
    \/ Next

\* a run of `md-translate translate`
SpecCli == CliInit /\ [][CliNext]_vars

\* ------------------------------------------- the output path of a matched file

XMD == <<"x">> \o MD

\* patterns and files they match, as glob returns them: relative to the
\* working directory for a relative pattern, absolute for an absolute one
GlobCases ==
    LET a == <<"a">>
        b == <<"b">>
        v == <<"v">>
        w == <<"w">>
        root == <<>>
        stars == <<"*", "*">>
        starMd == <<"*">> \o MD
    IN  \* a/**/*.md
        {[pattern |-> <<a, stars, starMd>>, file |-> f] :
            f \in {<<a, XMD>>, <<a, b, XMD>>}}
        \cup \* /w/a/**/*.md
        {[pattern |-> <<root, w, a, stars, starMd>>, file |-> f] :
            f \in {<<root, w, a, XMD>>, <<root, w, a, b, XMD>>}}
        \cup \* /v/**/*.md
        {[pattern |-> <<root, v, stars, starMd>>, file |-> f] :
            f \in {<<root, v, XMD>>, <<root, v, b, XMD>>}}
        \cup \* /*.md
        {[pattern |-> <<root, starMd>>, file |-> <<root, XMD>>]}
        \cup \* ../v/*.md
        {[pattern |-> <<DOTDOT, v, starMd>>, file |-> <<DOTDOT, v, XMD>>]}
        \cup \* /v/?/*.md
        {[pattern |-> <<root, v, <<"?">>, starMd>>, file |-> <<root, v, b, XMD>>]}
        \cup \* **/*
        {[pattern |-> AnyFile, file |-> AllFiles[k]] :
            k \in {j \in 1..5 : IsMarkdown(AllFiles[j])}}

\* one turn of the loop of translateFiles up to the call of translateFile
PathInit ==
    /\ pc = "outputPath"
    /\ entry = "outputPath"
    /\ content = <<>>
    /\ maxChunkSize = DEFAULT_CHUNK_SIZE
    /\ chunks = <<>>
    /\ \E c \in GlobCases :
          /\ inputPattern = c.pattern
          /\ inputPath = c.file
    /\ outputDir \in {OUT, cwd \o OUT, cwd}
    /\ progressCallback = FALSE
    /\ preserveStructure \in BOOLEAN
    /\ suffix \in {<<>>, <<"f", "r">>}
    /\ markdownFiles = <<>>
    /\ fileIdx = 0
    /\ processedFiles = 0
    /\ currentFileIndex = 0
    /\ results = <<>>
    /\ outputPath = <<>>
    /\ i = 0
    /\ translatedChunks = <<>>
    /\ translatedContent = <<>>
    /\ inflight = 0
    /\ dirs = {}
    /\ written = <<>>
    /\ rejection = ""
    /\ returned = <<>>
    /\ attempted = <<>>
    /\ trace = <<>>
    /\ NoCli

\* translator.js:236-269
CalculateOutputPath ==
    /\ pc = "outputPath"
    /\ outputPath' = OutputPathOf(inputPattern, inputPath, outputDir,
                                  preserveStructure, suffix)
    /\ pc' = "outputPathDone"
    /\ UNCHANGED <<splitVars, optionVars, batchVars, inputPath, i,
                   translatedChunks, translatedContent, trace, inflight, fsVars>>

PathNext == CalculateOutputPath

SpecPath == PathInit /\ [][PathNext]_vars

\* ------------------------------------------------- claims on splitIntoChunks

lines == split(content)

\* every line of the content fits the budget
BudgetFitsLines == \A k \in 1..Len(lines) : Len(lines[k]) <= maxChunkSize

RECURSIVE RunsFrom(_, _, _, _)
\* the runs of `ls` cut after every line whose index is in `cuts`
RunsFrom(ls, cuts, k, start) ==
    IF k > Len(ls) THEN <<>>
    ELSE IF k \in cuts \/ k = Len(ls)
         THEN <<SubSeq(ls, start, k)>> \o RunsFrom(ls, cuts, k + 1, k + 1)
         ELSE RunsFrom(ls, cuts, k + 1, start)

\* the chunks a partition into runs stands for: each run joined by newline and
\* trimmed, a last run of whitespace alone giving no chunk
ChunksOfRuns(runs) ==
    LET all == [j \in 1..Len(runs) |-> trim(join(runs[j], <<NL>>))]
    IN  IF all # <<>> /\ all[Len(all)] = <<>>
        THEN SubSeq(all, 1, Len(all) - 1)
        ELSE all

RECURSIVE EmbedsInOrder(_, _)
\* d = w0 c1 w1 ... cn wn with every wi whitespace alone
EmbedsInOrder(d, cs) ==
    IF cs = <<>> THEN trim(d) = <<>>
    ELSE LET d1 == TrimStart(d)
             c  == Head(cs)
         IN  /\ Len(c) <= Len(d1)
             /\ SubSeq(d1, 1, Len(c)) = c
             /\ EmbedsInOrder(SubSeq(d1, Len(c) + 1, Len(d1)), Tail(cs))

\* C3: splitIntoChunks never divides a line: the chunks are, in order, the
\* trimmed newline-joins of contiguous runs of the content's lines, so every
\* chunk boundary is a line boundary of the content.
C3_ChunksAreRunsOfLines ==
    pc = "splitDone" =>
        \E cuts \in SUBSET (1..(Len(lines) - 1)) :
            chunks = ChunksOfRuns(RunsFrom(lines, cuts, 1, 1))

\* two chunks, one of which holds more than one line
C3_Witness ==
    /\ pc = "splitDone"
    /\ Len(chunks) >= 2
    /\ \E ci \in 1..Len(chunks) : \E m \in 1..Len(chunks[ci]) : chunks[ci][m] = NL

\* C4: a chunk is longer than maxChunkSize only if it is one line of the
\* content (trimmed) whose own length exceeds maxChunkSize; and every line
\* longer than maxChunkSize is, trimmed, a chunk of its own, unless it is
\* whitespace alone.
C4_ChunkWithinBudgetUnlessOneLongLine ==
    pc = "splitDone" =>
        /\ \A ci \in 1..Len(chunks) :
              \/ Len(chunks[ci]) <= maxChunkSize
              \/ \E k \in 1..Len(lines) :
                    /\ Len(lines[k]) > maxChunkSize
                    /\ chunks[ci] = trim(lines[k])
        /\ \A k \in 1..Len(lines) :
              (Len(lines[k]) > maxChunkSize /\ trim(lines[k]) # <<>>) =>
                  \E ci \in 1..Len(chunks) : chunks[ci] = trim(lines[k])

\* an oversized line as a chunk of its own next to a chunk within the budget
C4_Witness ==
    /\ pc = "splitDone"
    /\ maxChunkSize >= 1
    /\ \E ci, cj \in 1..Len(chunks) :
          /\ Len(chunks[ci]) > maxChunkSize
          /\ chunks[cj] # <<>>
          /\ Len(chunks[cj]) <= maxChunkSize

\* C5: with a budget of at least every line's length, the content is the
\* chunks in order with whitespace alone before, between and after them:
\* nothing but whitespace at chunk boundaries is lost, nothing is duplicated
\* or reordered.
C5_RoundTripUpToBoundaryWhitespace ==
    (pc = "splitDone" /\ BudgetFitsLines) => EmbedsInOrder(content, chunks)

\* several chunks, and trimming removed something
C5_Witness ==
    /\ pc = "splitDone"
    /\ BudgetFitsLines
    /\ Len(chunks) >= 2
    /\ \A ci \in 1..Len(chunks) : chunks[ci] # <<>>
    /\ join(chunks, <<NL>>) # content

\* C6: empty or whitespace-only content gives no chunk, whatever the budget.
C6_WhitespaceOnlyGivesNoChunks ==
    (pc = "splitDone" /\ trim(content) = <<>>) => chunks = <<>>

\* C22: every chunk splitIntoChunks returns is non-empty and has neither
\* leading nor trailing whitespace, whatever the content and the budget.
C22_ChunksNonEmptyAndTrimmed ==
    pc = "splitDone" =>
        \A ci \in 1..Len(chunks) :
            /\ chunks[ci] # <<>>
            /\ trim(chunks[ci]) = chunks[ci]

\* ------------------------------------------------- claims on the translation

\* the positions of the events of one kind in the current file's trace
EventsAt(kind) == {k \in 1..Len(trace) : trace[k][1] = kind}

\* an outcome of translator.js:289-293
IsErrorOutcome(r) ==
    /\ DOMAIN r = {"inputPath", "error", "success"}
    /\ r.success = FALSE
    /\ r.error # ""

\* an outcome of translator.js:169-175
IsSuccessOutcome(r) ==
    DOMAIN r = {"inputPath", "outputPath", "targetLanguage", "originalLength",
                "translatedLength"}

\* C1: translateFiles tolerates per-file failure: between two files and at the
\* end, the files attempted are the first files of the list, each once and in
\* order, there is one outcome per attempted file, outcome k belongs to file
\* k and is an error record or a success record, and the output of every
\* success is written; at the return every file has been attempted.
C1_BatchIsolatesFailures ==
    pc \in {"loop", "returned"} =>
        /\ attempted = SubSeq(markdownFiles, 1, fileIdx - 1)
        /\ Len(results) = Len(attempted)
        /\ pc = "returned" => Len(results) = Len(markdownFiles)
        /\ \A k \in 1..Len(results) :
              /\ results[k].inputPath = markdownFiles[k]
              /\ IsErrorOutcome(results[k]) \/ IsSuccessOutcome(results[k])
              /\ IsSuccessOutcome(results[k]) =>
                    results[k].outputPath \in DOMAIN written

\* three files, the second failing: [success, error, success], both outputs
\* written
C1_Witness ==
    /\ pc = "returned"
    /\ Len(results) = 3
    /\ IsSuccessOutcome(results[1])
    /\ IsErrorOutcome(results[2])
    /\ IsSuccessOutcome(results[3])
    /\ results[1].outputPath # results[3].outputPath
    /\ {results[1].outputPath, results[3].outputPath} \subseteq DOMAIN written

\* C2: once the provider request for chunk k has failed, the call rejects
\* with that failure, the failure is the last event (no request for a later
\* chunk), requests were issued for chunks 1..k only, the translations of the
\* earlier chunks are dropped, and no directory was created and no file
\* written.
C2_ChunkFailureAbortsFile ==
    \A k \in EventsAt("failure") :
        /\ k = Len(trace)
        /\ pc = "rejected"
        /\ rejection = trace[k][3]
        /\ Cardinality(EventsAt("request")) = trace[k][2]
        /\ translatedChunks = <<>>
        /\ translatedContent = <<>>
        /\ returned = <<>>
        /\ dirs = {}
        /\ written = <<>>

\* the second of three chunks fails
C2_Witness ==
    /\ \E k \in EventsAt("failure") : trace[k][2] = 2
    /\ \E k \in EventsAt("request") : trace[k][3] = 3

RECURSIVE CanonFrom(_, _, _)
\* the events of a translateMarkdown run over chunks c..n that all succeed
CanonFrom(c, n, callback) ==
    IF c > n THEN <<>>
    ELSE (IF callback THEN << <<"progress", c, n>> >> ELSE <<>>)
         \o << <<"request", c, n>>, <<"response", c, n>> >>
         \o (IF c < n THEN << <<"delay", c, n>> >> ELSE <<>>)
         \o CanonFrom(c + 1, n, callback)

\* the trace without the texts of the responses
TraceShape == [k \in 1..Len(trace) |-> SubSeq(trace[k], 1, 3)]

\* C7: while every request succeeds, the events of the run are a prefix of:
\* callback (1,n), request 1, response 1, delay, callback (2,n), request 2,
\* ..., response n; they are all of it once translateMarkdown has returned;
\* without a callback the events are the same with the callback calls left
\* out.
C7_ProgressOncePerChunkInOrder ==
    pc \in {"generateContent", "delay", "ensureDir", "writeFile"} =>
        LET canon == CanonFrom(1, Len(chunks), progressCallback)
        IN  /\ Len(trace) <= Len(canon)
            /\ TraceShape = SubSeq(canon, 1, Len(trace))
            /\ pc \in {"ensureDir", "writeFile"} => Len(trace) = Len(canon)

\* a run over three chunks with a callback has returned
C7_Witness ==
    /\ pc = "ensureDir"
    /\ progressCallback
    /\ Len(chunks) = 3
    /\ Cardinality(EventsAt("progress")) = 3

\* the provider's texts of the current run, in chunk order
RawResponses ==
    LET at == EventsAt("response")
    IN  [c \in 1..Cardinality(at) |->
            trace[CHOOSE k \in at : trace[k][2] = c][4]]

\* the trimmed translations joined by a blank line
JoinedTrimmed ==
    join([c \in 1..Len(RawResponses) |-> trim(RawResponses[c])], <<NL, NL>>)

ExactlyOneFinalNewline(s) ==
    /\ endsWithNewline(s)
    /\ Len(s) >= 2 => s[Len(s) - 1] # NL

\* C8 as stated: the value translateMarkdown returns is the trimmed
\* translations joined by a blank line and ends with exactly one newline,
\* whatever the provider answered.
C8_ExactlyOneNewlineAlways ==
    pc \in {"ensureDir", "writeFile"} =>
        /\ translatedContent \in {JoinedTrimmed, Append(JoinedTrimmed, NL)}
        /\ ExactlyOneFinalNewline(translatedContent)

\* C8 amended: the value translateMarkdown returns is the trimmed translations
\* joined by a blank line, with one newline appended unless the joined text
\* already ends with one; it always ends with a newline, and with exactly one
\* when there is one chunk or the last chunk's trimmed translation is not
\* empty.
C8_FinalNewlineUnlessLastEmpty ==
    pc \in {"ensureDir", "writeFile"} =>
        LET n == Len(RawResponses)
        IN  /\ n = Len(chunks)
            /\ endsWithNewline(translatedContent)
            /\ translatedContent \in {JoinedTrimmed, Append(JoinedTrimmed, NL)}
            /\ (n = 1 \/ trim(RawResponses[n]) # <<>>) =>
                  /\ translatedContent = Append(JoinedTrimmed, NL)
                  /\ ExactlyOneFinalNewline(translatedContent)

\* several chunks, the last translated to whitespace alone
C8_Witness ==
    /\ pc = "ensureDir"
    /\ Len(RawResponses) >= 2
    /\ trim(RawResponses[Len(RawResponses)]) = <<>>
    /\ trim(RawResponses[1]) # <<>>

\* C9: at most one provider request is in flight; one is in flight exactly
\* while translateChunk awaits the provider, and then every earlier chunk of
\* the file has been answered and every earlier file of the batch has its
\* outcome.
C9_OneRequestInFlight ==
    /\ inflight \in {0, 1}
    /\ inflight = 1 <=> pc = "generateContent"
    /\ inflight = 1 =>
          /\ Len(translatedChunks) = i
          /\ Cardinality(EventsAt("request")) = i + 1
          /\ Cardinality(EventsAt("response")) = i
          /\ Len(results) = fileIdx - 1

\* the request for the second chunk of the second file is in flight
C9_Witness ==
    /\ inflight = 1
    /\ fileIdx = 2
    /\ i = 1

C11_FailedRequestIsRetried ==
    \A k \in EventsAt("failure") :
        /\ pc # "rejected"
        /\ k < Len(trace)
        /\ trace[k + 1][1] = "request"
        /\ trace[k + 1][2] = trace[k][2]

\* ------------------------------------------------ claims on the output path

\* a file name with "_" and the suffix put before its extension
SuffixedName(fileName, sfx) ==
    LET d == LastDot(fileName, Len(fileName))
    IN  IF sfx = <<>> THEN fileName
        ELSE SubSeq(fileName, 1, d - 1) \o <<"_">> \o sfx
             \o SubSeq(fileName, d, Len(fileName))

\* a segment with a wildcard character
IsWildcardSegment(part) == \E k \in 1..Len(part) : part[k] \in {"*", "?"}

\* the literal base directory of a pattern: the segments before the first
\* wildcard segment
LiteralBase(pattern) ==
    IF \E k \in 1..Len(pattern) : IsWildcardSegment(pattern[k])
    THEN SubSeq(pattern, 1,
                (CHOOSE k \in 1..Len(pattern) :
                    /\ IsWildcardSegment(pattern[k])
                    /\ \A j \in 1..(k - 1) : ~IsWildcardSegment(pattern[j])) - 1)
    ELSE <<>>

\* the file's path below the pattern's literal base directory, or below the
\* working directory when the file does not start with that base
BelowLiteralBase(pattern, file) ==
    LET base == LiteralBase(pattern)
    IN  IF Len(base) < Len(file) /\ SubSeq(file, 1, Len(base)) = base
        THEN SubSeq(file, Len(base) + 1, Len(file))
        ELSE relative(cwd, file)

\* C12: in structured mode the destination is outputDir, then the directories
\* of the file's path relative to the pattern's literal base directory, then
\* the file name with the suffix; a/**/*.md matching a/b/x.md gives out/b/x.md.
C12_StructuredPathBelowLiteralBase ==
    (pc = "outputPathDone" /\ preserveStructure) =>
        LET rel == BelowLiteralBase(inputPattern, inputPath)
        IN  outputPath = outputDir \o SubSeq(rel, 1, Len(rel) - 1)
                         \o <<SuffixedName(rel[Len(rel)], suffix)>>

\* C13: in flat mode the destination is outputDir followed by the file's own
\* name, with "_" and the suffix before the extension when a suffix is given
\* and unchanged otherwise; no directory of the input is kept.
C13_FlatPathIsOutputDirAndName ==
    (pc = "outputPathDone" /\ ~preserveStructure) =>
        LET fileName == inputPath[Len(inputPath)]
        IN  /\ outputPath = outputDir \o <<SuffixedName(fileName, suffix)>>
            /\ suffix = <<>> => outputPath[Len(outputPath)] = fileName
            /\ suffix = <<"f", "r">> =>
                  outputPath[Len(outputPath)] =
                      SubSeq(fileName, 1, Len(fileName) - 3) \o <<"_", "f", "r">> \o MD

\* a/b/x.md with suffix fr goes to out/x_fr.md
C13_Witness ==
    /\ pc = "outputPathDone"
    /\ ~preserveStructure
    /\ inputPath = << <<"a">>, <<"b">>, XMD >>
    /\ outputPath = OUT \o << <<"x", "_", "f", "r">> \o MD >>

\* ----------------------------------------------------- claims on the batch

\* a file whose name ends with .md, .markdown or .mdx
HasMarkdownExtension(file) ==
    \E ext \in {MD, <<".", "m", "d", "x">>,
                <<".", "m", "a", "r", "k", "d", "o", "w", "n">>} :
        endsWith(file[Len(file)], ext)

\* the messages of the two batch-level failures of the file search
NoFilesErrors ==
    {"No files found matching pattern", "No markdown files found in the matched files"}

\* C14: translateFiles rejecting because the pattern matched no file, or no
\* Markdown file, has created no directory, written no file, called
\* translateFile for no file and issued no request; and whenever a directory
\* exists, a file is written, a file is attempted or a request is in flight,
\* the file list is not empty and holds Markdown files only.
C14_NoMatchNoEffects ==
    /\ (pc = "rejected" /\ rejection \in NoFilesErrors) =>
          /\ dirs = {}
          /\ written = <<>>
          /\ attempted = <<>>
          /\ results = <<>>
          /\ trace = <<>>
          /\ inflight = 0
    /\ (dirs # {} \/ written # <<>> \/ attempted # <<>> \/ inflight > 0) =>
          /\ markdownFiles # <<>>
          /\ \A k \in 1..Len(markdownFiles) : HasMarkdownExtension(markdownFiles[k])

\* the pattern matched a file, but no Markdown file
C14_Witness ==
    /\ pc = "rejected"
    /\ rejection = "No markdown files found in the matched files"
    /\ dirs = {}

\* C15: every step leaves the outcome list as it is or appends one outcome to
\* it; the appended outcome belongs to the file whose attempt ends with that
\* step and is either a success record or an error record, never a record
\* with the fields of both.
C15_OutcomesAppendOnly ==
    [][\/ results' = results
       \/ /\ Len(results') = Len(results) + 1
          /\ SubSeq(results', 1, Len(results)) = results
          /\ pc \in {"pathExists", "readFile", "generateContent", "ensureDir",
                     "writeFile"}
          /\ pc' = "loop"
          /\ LET r == results'[Len(results')]
             IN  /\ r.inputPath = inputPath
                 /\ IsErrorOutcome(r) \/ IsSuccessOutcome(r)
                 /\ IsSuccessOutcome(r) =>
                       /\ pc = "writeFile"
                       /\ r.outputPath = outputPath
                       /\ outputPath \in DOMAIN written'
       ]_vars

\* an error outcome followed by a success outcome, the batch still running
C15_Witness ==
    /\ pc = "pathExists"
    /\ Len(results) = 2
    /\ IsErrorOutcome(results[1])
    /\ IsSuccessOutcome(results[2])

\* the messages of the two failures of translateFile before the translation
InputErrors == {"Input file does not exist", "Input file is empty"}

\* a step from the existence check or the read of translateFile: it touches
\* no directory and no file, and when it ends the attempt, no request was
\* issued, the failure is the file's error outcome and the next file is due
InputCheckStep ==
    pc \in {"pathExists", "readFile"} =>
        /\ dirs' = dirs
        /\ written' = written
        /\ pc' = "loop" =>
              /\ trace = <<>>
              /\ trace' = <<>>
              /\ inflight' = 0
              /\ fileIdx' = fileIdx + 1
              /\ \E m \in InputErrors :
                    results' = Append(results,
                        [inputPath |-> inputPath, error |-> m, success |-> FALSE])

\* C16: a file that does not exist or holds whitespace alone fails before any
\* request: the translation runs on content that is not blank only; the steps
\* from the existence check and the read touch no directory and no file; such a
\* failure ends the attempt with no request issued, becomes the file's error
\* outcome and the batch goes on with the next file, so that at the return
\* every file was attempted.
C16_MissingOrBlankInputFailsEarly ==
    /\ [](pc \in {"generateContent", "delay", "ensureDir", "writeFile"} =>
             trim(content) # <<>>)
    /\ [](pc = "returned" => attempted = markdownFiles)
    /\ [][InputCheckStep]_vars

\* a missing file, then a blank file, then a translated file
C16_Witness ==
    /\ pc = "returned"
    /\ Len(results) = 3
    /\ IsErrorOutcome(results[1]) /\ results[1].error = "Input file does not exist"
    /\ IsErrorOutcome(results[2]) /\ results[2].error = "Input file is empty"
    /\ IsSuccessOutcome(results[3])

\* ------------------------------------------------ claims on the chunk delay

\* C20: a delay comes right after the response to a chunk that is not the
\* last, and right before the progress callback (the request, when there is
\* no callback) of the next chunk; the response to every chunk but the last is
\* followed by a delay, the response to the last chunk and a failure by
\* nothing; a run over n chunks that all succeed has n-1 delays.
C20_DelayBetweenChunksOnly ==
    /\ \A k \in EventsAt("delay") :
          /\ k > 1
          /\ trace[k - 1][1] = "response"
          /\ trace[k - 1][2] = trace[k][2]
          /\ trace[k][2] < trace[k][3]
          /\ k < Len(trace)
          /\ trace[k + 1][1] = (IF progressCallback THEN "progress" ELSE "request")
          /\ trace[k + 1][2] = trace[k][2] + 1
    /\ \A k \in EventsAt("response") :
          IF trace[k][2] < trace[k][3]
          THEN IF k = Len(trace) THEN pc = "delay"
               ELSE trace[k + 1] = <<"delay", trace[k][2], trace[k][3]>>
          ELSE k = Len(trace)
    /\ \A k \in EventsAt("failure") : k = Len(trace) /\ pc # "delay"
    /\ pc = "delay" => trace # <<>> /\ trace[Len(trace)][1] = "response"
    /\ (pc \in {"ensureDir", "writeFile"} /\ chunks # <<>>) =>
          Cardinality(EventsAt("delay")) = Len(chunks) - 1

\* a run over three chunks without a callback has returned after two delays
C20_Witness ==
    /\ pc = "ensureDir"
    /\ ~progressCallback
    /\ Len(chunks) = 3
    /\ Cardinality(EventsAt("delay")) = 2

\* ----------------------------------------------- claims on the command line

\* the translator has done nothing: no call, no request, no directory, no file
TranslatorUntouched ==
    /\ entry = "cli"
    /\ attempted = <<>>
    /\ results = <<>>
    /\ trace = <<>>
    /\ inflight = 0
    /\ dirs = {}
    /\ written = <<>>

KeyError == "Google Gemini API key is required"
ExtensionError == "Input file must be a markdown file"
OutputDirError == "--output-dir is required for batch translation"

\* C17 as stated: the command line exits on a missing API key or an unsupported
\* extension of a single input file without any file system access of its own
\* and with the translator untouched.
C17_ConfigErrorsBeforeAnyAccess ==
    (pc = "exit" /\ exitError \in {KeyError, ExtensionError}) =>
        /\ cliLog = <<>>
        /\ TranslatorUntouched

\* C17 amended: without an API key the command line never gets past the key
\* check and accesses nothing; the unsupported extension of a single input file
\* is reported after the glob expansion and the existence check of the input
\* and nothing else, with the translator untouched; and translateFile is only
\* ever called for a file with a Markdown extension.
C17_ConfigErrorsBeforeTranslation ==
    /\ ~options.key =>
          /\ pc \in {"cli", "exit"}
          /\ pc = "exit" => exitError = KeyError
          /\ cliLog = <<>>
          /\ TranslatorUntouched
    /\ (pc = "exit" /\ exitError = ExtensionError) =>
          /\ cliLog = <<"glob", "pathExists">>
          /\ ~isPattern
          /\ TranslatorUntouched
    /\ entry = "translateFile" => HasMarkdownExtension(attempted[1])

\* the extension of a/n.txt is reported
C17_Witness ==
    /\ pc = "exit"
    /\ exitError = ExtensionError
    /\ options.input = AllFiles[3]
    /\ cliLog = <<"glob", "pathExists">>

\* C18: without --suffix (and without --output) every output file is named
\* after its input file with "_" and the lower-cased language name before the
\* extension, for a single file and in a batch.
C18_DefaultSuffixIsLanguage ==
    (options.suffix = <<>> /\ options.output = <<>> /\ outputPath # <<>>) =>
        outputPath[Len(outputPath)] =
            SuffixedName(inputPath[Len(inputPath)], <<"f", "r", "e", "n", "c", "h">>)

\* C19: an input classified as a pattern without --output-dir makes the
\* command line exit with the --output-dir error in the very step that
\* classifies it, the translator untouched; an input with a wildcard and no
\* --output-dir never gets past the classification; and translateFiles is
\* only ever called with an output directory.
C19_BatchRequiresOutputDir ==
    /\ (isPattern /\ options.outputDir = <<>>) =>
          /\ pc = "exit"
          /\ exitError = OutputDirError
          /\ cliLog = <<"glob">>
          /\ TranslatorUntouched
    /\ (Includes(options.input, "*") /\ options.outputDir = <<>>) =>
          /\ pc \in {"cli", "cliGlob", "exit"}
          /\ TranslatorUntouched
    /\ entry = "translateFiles" => (options.outputDir # <<>> /\ outputDir # <<>>)

\* '{a,b}/x.md' matched two files and no --output-dir was given
C19_Witness ==
    /\ pc = "exit"
    /\ exitError = OutputDirError
    /\ options.input = Braces
    /\ isPattern

\* ------------------------------------------------- claims on termination

\* C21: when every awaited step settles, a batch ends: it returns its outcome
\* list or rejects with a batch-level error; no file is attempted twice; it
\* returns only with every file attempted and one outcome per file, whatever
\* failed; and it rejects only before the first file.
C21_BatchTerminates ==
    /\ <>(pc \in {"returned", "rejected"})
    /\ [](\A j, k \in 1..Len(attempted) : attempted[j] = attempted[k] => j = k)
    /\ [](pc = "returned" =>
             /\ Len(attempted) = Len(markdownFiles)
             /\ Len(results) = Len(markdownFiles))
    /\ [](pc = "rejected" => (attempted = <<>> /\ results = <<>>))

\* the batch returned although each of its three files failed
C21_Witness ==
    /\ pc = "returned"
    /\ Len(results) = 3
    /\ \A k \in 1..3 : IsErrorOutcome(results[k])

\* ----------------------------------------- claims on the files a batch writes

\* C23: in one batch distinct input files have distinct output paths, so no
\* two success outcomes name the same output file and no translation is
\* overwritten by that of a later file.
C23_DistinctOutputPaths ==
    \A j, k \in 1..Len(results) :
        (j < k /\ IsSuccessOutcome(results[j]) /\ IsSuccessOutcome(results[k]))
            => results[j].outputPath # results[k].outputPath

\* C24: every output path computed for a matched file lies inside outputDir:
\* it is outputDir followed by one or more segments, none of them '..'.
C24_OutputPathInsideOutputDir ==
    pc = "outputPathDone" =>
        LET d == normalize(outputDir)
        IN  /\ Len(outputPath) > Len(d)
            /\ SubSeq(outputPath, 1, Len(d)) = d
            /\ \A k \in (Len(d) + 1)..Len(outputPath) : outputPath[k] # DOTDOT

\* C25: the file number a batch reports for the i-th Markdown file, on the
\* console and to the progress callback, is i, whatever became of the files
\* before it.
C25_FileNumberIsPosition ==
    (entry = "translateFiles" /\ attempted # <<>>)
        => currentFileIndex = Len(attempted)

\* C26: the output path computed for a matched file is never the path of
\* that file, whatever the output directory and the suffix.
C26_OutputPathIsNotInputPath ==
    pc = "outputPathDone" => resolve(outputPath) # resolve(inputPath)

====
